---- MODULE Spec2Model ----
(***************************************************************************)
(* A model of scripts/af3_runner.py: the batch runner that validates the   *)
(* job descriptors of an input directory, assigns devices round-robin,     *)
(* runs one external prediction process per job on a bounded thread pool,  *)
(* collects the outcomes and writes a summary report.                      *)
(*                                                                         *)
(* The main thread is a program counter (pc); every pool worker step and   *)
(* every step of the main thread is one action.  What the environment      *)
(* answers (the directory listing, nvidia-smi, the CPU count, how a        *)
(* process ends) is chosen when the program asks for it.                   *)
(***************************************************************************)
EXTENDS Integers, Sequences, FiniteSets, TLC

\* ------------------------------------------------------------------ bounds
\* Directory entries are named 1..MaxFiles; the number is the rank of the
\* entry's file name in sorted order.
MaxFiles == 3
\* --max_concurrent is drawn from 0..MaxConcurrent (0 stands for every value
\* the thread pool refuses).
MaxConcurrent == 2
\* nvidia-smi lists 0..MaxGpu devices when it succeeds.
MaxGpu == 2
\* os.cpu_count() answers None or 1..MaxCpu.
MaxCpu == 2
\* A process that exits returns a code in 0..MaxExit.
MaxExit == 2
\* The distinct standard-error texts a process may leave.
MaxStderr == 1
\* Wall-clock seconds a process that ends in time may take: 1..MaxDuration.
MaxDuration == 1

\* ------------------------------------------------------- program constants
\* subprocess.run(..., timeout=3600)
timeout == 3600
\* os.cpu_count() or 4
DefaultCpu == 4

\* Python's None (an absent gpu_id, an exit code not yet set).
None == -1

VARIABLES
    pc,              \* where the main thread is
    exit_code,       \* the interpreter's exit status, None while running
    af3_script_exists, input_dir_exists, output_dir_exists,   \* the file system
    max_concurrent,  \* args.max_concurrent
    candidates,      \* the entries of input_dir whose name ends in .json
    json_files,      \* run_batch_predictions: the validated paths, in listing order
    skipped,         \* the entries logged as "skipped, invalid JSON"
    gpu_count,       \* the answer of detect_gpu_count()
    cpu_count,       \* the answer of os.cpu_count(), None if not asked or unknown
    tasks,           \* the (json_file, gpu_id) pairs
    max_workers,     \* the size of the thread pool
    status,          \* per submitted task: "pending", "running", "inflight", "done"
    future,          \* per task: the future's result or exception once done
    proc,            \* per task: the external process, its invocation and its end
    collected,       \* the tasks the as_completed loop has handled
    results,         \* the three buckets 'success', 'failed', 'errors'
    returned,        \* run_batch_predictions has returned to main
    started,         \* per task: how often a worker took it off the queue
    report,          \* run_summary.txt
    effects,         \* the kinds of side effect the run has had so far
    environ,         \* os.environ, the environment of the runner itself
    smi,             \* detect_gpu_count: the completed nvidia-smi call, if any
    ready            \* the finished futures not yet yielded: in the order they
                     \* finished and, once as_completed is called, will be yielded

vars == << pc, exit_code, af3_script_exists, input_dir_exists, output_dir_exists,
           max_concurrent, candidates, json_files, skipped, gpu_count, cpu_count,
           tasks, max_workers, status, future, proc, collected, results,
           returned, started, report, effects, environ, smi, ready >>

\* ----------------------------------------------------------------- helpers
Min(a, b) == IF a < b THEN a ELSE b

RECURSIVE SelectSeqIn(_, _)
\* [x for x in s if x in keep], keeping the order of s
SelectSeqIn(s, keep) ==
    IF s = << >> THEN << >>
    ELSE IF Head(s) \in keep THEN << Head(s) >> \o SelectSeqIn(Tail(s), keep)
         ELSE SelectSeqIn(Tail(s), keep)

Range(s) == { s[i] : i \in 1..Len(s) }

\* The sequences over S without repetition: what os.listdir may return for a
\* directory holding the entries S ("the list is in arbitrary order").
Listings(S) ==
    { s \in UNION { [1..n -> S] : n \in {Cardinality(S)} } :
        \A i, j \in 1..Len(s) : i # j => s[i] # s[j] }

\* os.path.join(input_dir, file), os.path.basename/splitext, os.path.dirname
JoinPath(dir, file) == << dir, file >>
base_name(path) == path[2]
dirname(path) == path[1]


\* ------------------------------------------------- detect_gpu_count (41-52)
\* What running nvidia-smi may do: the program is not installed
\* (FileNotFoundError), starting it raises another OSError (a file that may
\* not be executed), it exits nonzero, or it exits 0 after printing `lines`
\* device names, one per line.
SmiOutcomes ==
    { [kind |-> "absent", lines |-> 0], [kind |-> "oserror", lines |-> 0],
      [kind |-> "nonzero", lines |-> 0] }
    \cup { [kind |-> "ok", lines |-> n] : n \in 0..MaxGpu }

\* No nvidia-smi call is under way.
NoSmi == [kind |-> "none", lines |-> 0]

\* len(result.stdout.strip().split('\n')): splitting the empty string still
\* yields one element.
SplitLineCount(lines) == IF lines = 0 THEN 1 ELSE lines

\* The value returned for an nvidia-smi call that did not raise past the
\* except clause of line 50.
detect_gpu_count(result) ==
    IF result.kind = "ok" THEN SplitLineCount(result.lines) ELSE 0

\* ----------------------------------------------- validate_json_file (55-101)
\* The validator is an opaque predicate of the descriptor's content: every
\* path through it returns True for a well-formed descriptor and False
\* otherwise (a parse error, a missing field, an invalid residue, a
\* directory named *.json, ...).
validate_json_file(path, valid) == base_name(path) \in valid

\* ------------------------------------------- run_single_prediction (104-198)
\* f"GPU {gpu_id}" or "CPU"
gpu_info(gpu_id) == IF gpu_id # None THEN << "GPU", gpu_id >> ELSE << "CPU" >>

job_output_dir(json_file) == << "output_dir", base_name(json_file) >>

\* The environments the runner may be started in: the device variable is
\* not set, or it is inherited from the shell with a value of its own.
EnvironChoices ==
    { [CUDA_VISIBLE_DEVICES |-> v, PATH |-> << "set", 0 >>] :
        v \in { << "unset" >>, << "set", MaxGpu >> } }

\* TaskEnv without the pop of line 136: in CPU mode the copy keeps what the
\* runner inherited.
TaskEnvKeepsInherited(gpu_id) ==
    IF gpu_id # None
    THEN [environ EXCEPT !.CUDA_VISIBLE_DEVICES = << "set", gpu_id >>]
    ELSE environ

\* env = os.environ.copy(); the device variable is set or removed in the copy.
TaskEnv(gpu_id) ==
    IF gpu_id # None
    THEN [environ EXCEPT !.CUDA_VISIBLE_DEVICES = << "set", gpu_id >>]
    ELSE [environ EXCEPT !.CUDA_VISIBLE_DEVICES = << "unset" >>]

\* cmd = ['python', af3_script, '--input_dir', dirname(json_file),
\*        '--output_dir', job_output_dir, ...]
Cmd(json_file) ==
    [input_dir |-> dirname(json_file), output_dir |-> job_output_dir(json_file)]

NoProc == [state |-> "none"]
NoFuture == [kind |-> "unresolved"]

\* ExitResult with the test of line 163 written as `returncode != 1`.
ExitResultOnlyOneFails(json_file, gpu_id, returncode, stderr, duration) ==
    IF returncode # 1
    THEN [status |-> "success", sample |-> base_name(json_file),
          output_dir |-> job_output_dir(json_file), duration |-> duration,
          gpu_info |-> gpu_info(gpu_id)]
    ELSE [status |-> "failed", sample |-> base_name(json_file),
          error |-> << "stderr", stderr >>, duration |-> duration,
          gpu_info |-> gpu_info(gpu_id)]

\* The dict returned when the process exits by itself (163-181).
ExitResult(json_file, gpu_id, returncode, stderr, duration) ==
    IF returncode = 0
    THEN [status |-> "success", sample |-> base_name(json_file),
          output_dir |-> job_output_dir(json_file), duration |-> duration,
          gpu_info |-> gpu_info(gpu_id)]
    ELSE [status |-> "failed", sample |-> base_name(json_file),
          error |-> << "stderr", stderr >>, duration |-> duration,
          gpu_info |-> gpu_info(gpu_id)]

\* except subprocess.TimeoutExpired (183-190)
TimeoutResult(json_file, gpu_id) ==
    [status |-> "timeout", sample |-> base_name(json_file),
     error |-> << "Prediction timeout" >>, gpu_info |-> gpu_info(gpu_id)]

\* except Exception as e (191-198)
ErrorResult(json_file, gpu_id, e) ==
    [status |-> "error", sample |-> base_name(json_file),
     error |-> << "exception", e >>, gpu_info |-> gpu_info(gpu_id)]

Resolved(r) == [kind |-> "result", result |-> r]
Raised(e) == [kind |-> "exception", error |-> << "exception", e >>]

\* ------------------------------------------- run_batch_predictions (201-307)
\* FindJsonFiles without the validation of line 233.
FindJsonFilesUnvalidated(listing, is_json, valid) ==
    LET paths == [i \in 1..Len(listing) |-> JoinPath("input_dir", listing[i])]
    IN  SelectSeqIn(paths, { p \in Range(paths) : base_name(p) \in is_json })

\* The loop of lines 229-236 over one listing: the paths that end in .json
\* and pass validation, in listing order.
FindJsonFiles(listing, is_json, valid) ==
    LET paths == [i \in 1..Len(listing) |-> JoinPath("input_dir", listing[i])]
    IN  SelectSeqIn(paths,
            { p \in Range(paths) :
                base_name(p) \in is_json /\ validate_json_file(p, valid) })

\* The entries the loop logs as skipped (236).
SkippedFiles(listing, is_json, valid) ==
    { f \in Range(listing) :
        f \in is_json /\ ~validate_json_file(JoinPath("input_dir", f), valid) }

\* AssignGpu with gpu_index incremented before it is used.
AssignGpuIncrementsFirst(index0, gpus) ==
    IF gpus > 0 THEN (index0 + 1) % gpus ELSE None

\* Lines 251-261: gpu_id = gpu_index % gpu_count with gpu_index counting the
\* jobs so far (0-based), or None.
AssignGpu(index0, gpus) == IF gpus > 0 THEN index0 % gpus ELSE None

PrepareTaskList(files, gpus) ==
    [i \in 1..Len(files) |-> << files[i], AssignGpu(i - 1, gpus) >>]

\* MaxWorkers that takes the configured limit alone.
MaxWorkersIgnoresResources(limit, gpus, cpus) == limit

\* Lines 266-271.  cpus is os.cpu_count(): None when it cannot be determined.
MaxWorkers(limit, gpus, cpus) ==
    IF gpus > 0 THEN Min(limit, gpus)
    ELSE Min(limit, IF cpus = None THEN DefaultCpu ELSE cpus)

EmptyResults == [success |-> << >>, failed |-> << >>, errors |-> << >>]

\* CollectInto whose except clause (303-305) files the job under 'failed'.
CollectIntoErrorsAsFailed(res, json_file, fut) ==
    IF fut.kind = "result"
    THEN IF fut.result.status = "success"
         THEN [res EXCEPT !.success = Append(@, fut.result)]
         ELSE [res EXCEPT !.failed = Append(@, fut.result)]
    ELSE [res EXCEPT !.failed =
              Append(@, [sample |-> base_name(json_file), error |-> fut.error])]

\* CollectInto with the else branch of line 297 narrowed to
\* `elif result['status'] == 'failed'`.
CollectIntoOnlyFailed(res, json_file, fut) ==
    IF fut.kind = "result"
    THEN IF fut.result.status = "success"
         THEN [res EXCEPT !.success = Append(@, fut.result)]
         ELSE IF fut.result.status = "failed"
         THEN [res EXCEPT !.failed = Append(@, fut.result)]
         ELSE res
    ELSE [res EXCEPT !.errors =
              Append(@, [sample |-> base_name(json_file), error |-> fut.error])]

\* The body of the as_completed loop (291-305) for one resolved future.
CollectInto(res, json_file, fut) ==
    IF fut.kind = "result"
    THEN IF fut.result.status = "success"
         THEN [res EXCEPT !.success = Append(@, fut.result)]
         ELSE [res EXCEPT !.failed = Append(@, fut.result)]
    ELSE [res EXCEPT !.errors =
              Append(@, [sample |-> base_name(json_file), error |-> fut.error])]


\* ---------------------------------------------- generate_summary_report (310-358)
NoReport == [state |-> "absent"]

\* f"{success_count/total_tasks*100:.1f}" in tenths of a percent, truncated.
SuccessRate(success_count, total_tasks) == (success_count * 1000) \div total_tasks

\* result.get('error', 'Unknown error')
GetError(r) == IF "error" \in DOMAIN r THEN r.error ELSE << "Unknown error" >>

\* The file written when no statement raises.
ReportText(res) ==
    LET success_count == Len(res.success)
        failed_count  == Len(res.failed)
        error_count   == Len(res.errors)
        total_tasks   == success_count + failed_count + error_count
    IN  [state |-> "complete",
         total_tasks |-> total_tasks,
         success_count |-> success_count,
         failed_count |-> failed_count,
         error_count |-> error_count,
         success_rate |-> SuccessRate(success_count, total_tasks),
         success_section |->
            [i \in 1..success_count |->
                << res.success[i].sample, res.success[i].gpu_info,
                   res.success[i].duration >>],
         failed_section |->
            [i \in 1..failed_count |->
                << res.failed[i].sample, res.failed[i].gpu_info,
                   GetError(res.failed[i]) >>],
         error_section |->
            [i \in 1..error_count |->
                << res.errors[i].sample, res.errors[i].error >>]]

\* The file left behind when line 333 divides by zero: the header and the
\* four counts were written, the with-block closes the file.
PartialReport == [state |-> "partial", total_tasks |-> 0]

\* --------------------------------------------------------------------- Init
Tasks == 1..Len(tasks)

Init ==
    /\ pc = "main"
    /\ exit_code = None
    /\ af3_script_exists \in BOOLEAN
    /\ input_dir_exists \in BOOLEAN
    /\ output_dir_exists \in BOOLEAN
    /\ max_concurrent \in 0..MaxConcurrent
    /\ candidates = {}
    /\ json_files = << >>
    /\ skipped = {}
    /\ gpu_count = 0
    /\ cpu_count = None
    /\ tasks = << >>
    /\ max_workers = 0
    /\ status = << >>
    /\ future = << >>
    /\ proc = << >>
    /\ collected = {}
    /\ results = EmptyResults
    /\ returned = FALSE
    /\ started = << >>
    /\ report = NoReport
    /\ effects = {}
    /\ environ \in EnvironChoices
    /\ smi = NoSmi
    /\ ready = << >>

\* CheckScript that logs the missing executable and goes on (no sys.exit).
CheckScriptGoesOn ==
    /\ pc = "main"
    /\ pc' = "check_input_dir"
    /\ UNCHANGED << exit_code, af3_script_exists, input_dir_exists,
                    output_dir_exists, max_concurrent, candidates, json_files,
                    skipped, gpu_count, cpu_count, tasks, max_workers, status,
                    future, proc, collected, results, returned, started,
                    report, effects >>
    /\ UNCHANGED << environ, smi, ready >>

\* ------------------------------------------------------------ main (417-420)
CheckScript ==
    /\ pc = "main"
    /\ IF af3_script_exists
       THEN pc' = "check_input_dir" /\ UNCHANGED exit_code
       ELSE pc' = "exit" /\ exit_code' = 1
    /\ UNCHANGED << af3_script_exists, input_dir_exists, output_dir_exists,
                    max_concurrent, candidates, json_files, skipped, gpu_count,
                    cpu_count, tasks, max_workers, status, future, proc,
                    collected, results, returned, started, report,
                    effects >>
    /\ UNCHANGED << environ, smi, ready >>

\* ------------------------------------------- run_batch_predictions (224-226)
CheckInputDir ==
    /\ pc = "check_input_dir"
    /\ IF input_dir_exists
       THEN pc' = "find_json" /\ UNCHANGED << results, returned >>
       ELSE pc' = "report" /\ results' = EmptyResults /\ returned' = TRUE
    /\ UNCHANGED << exit_code, af3_script_exists, input_dir_exists,
                    output_dir_exists, max_concurrent, candidates, json_files,
                    skipped, gpu_count, cpu_count, tasks, max_workers, status,
                    future, proc, collected, started, report,
                    effects >>
    /\ UNCHANGED << environ, smi, ready >>

\* Lines 229-242: list the directory, keep the valid .json files; return the
\* empty buckets when none is left.
ScanInputDir ==
    /\ pc = "find_json"
    /\ \E entries \in SUBSET (1..MaxFiles) :
       \E listing \in Listings(entries) :
       \E is_json \in SUBSET entries :
       \E valid \in SUBSET entries :
          /\ candidates' = is_json
          /\ json_files' = FindJsonFiles(listing, is_json, valid)
          /\ skipped' = SkippedFiles(listing, is_json, valid)
          /\ effects' = effects \cup {"listdir"}
                \cup (IF is_json # {} THEN {"validate"} ELSE {})
    /\ IF json_files' = << >>
       THEN pc' = "report" /\ results' = EmptyResults /\ returned' = TRUE
       ELSE pc' = "detect_gpu" /\ UNCHANGED << results, returned >>
    /\ UNCHANGED << exit_code, af3_script_exists, input_dir_exists,
                    output_dir_exists, max_concurrent, gpu_count, cpu_count,
                    tasks, max_workers, status, future, proc, collected,
                    started, report >>
    /\ UNCHANGED << environ, smi, ready >>

\* detect_gpu_count, line 44: subprocess.run(['nvidia-smi', ...]) ends.
RunNvidiaSmi ==
    /\ pc = "detect_gpu"
    /\ smi' \in SmiOutcomes
    /\ effects' = effects \cup {"nvidia-smi"}
    /\ pc' = "count_gpus"
    /\ UNCHANGED << exit_code, af3_script_exists, input_dir_exists,
                    output_dir_exists, max_concurrent, candidates, json_files,
                    skipped, gpu_count, cpu_count, tasks, max_workers, status,
                    future, proc, collected, results, returned, started,
                    report, environ, ready >>

\* detect_gpu_count, lines 46-52, and the assignment of line 245.  Only
\* FileNotFoundError is caught: any other exception of subprocess.run leaves
\* detect_gpu_count, run_batch_predictions and main, and the interpreter
\* exits with status 1.
DetectGpu ==
    /\ pc = "count_gpus"
    /\ IF smi.kind = "oserror"
       THEN pc' = "exit" /\ exit_code' = 1 /\ UNCHANGED gpu_count
       ELSE pc' = "makedirs" /\ gpu_count' = detect_gpu_count(smi)
            /\ UNCHANGED exit_code
    /\ smi' = NoSmi
    /\ UNCHANGED << af3_script_exists, input_dir_exists,
                    output_dir_exists, max_concurrent, candidates, json_files,
                    skipped, cpu_count, tasks, max_workers, status, future,
                    proc, collected, results, returned, started, report,
                    effects, environ, ready >>

\* Line 248: os.makedirs(output_dir, exist_ok=True)
MakeOutputDir ==
    /\ pc = "makedirs"
    /\ output_dir_exists' = TRUE
    /\ effects' = effects \cup {"makedirs"}
    /\ pc' = "prepare"
    /\ UNCHANGED << exit_code, af3_script_exists, input_dir_exists,
                    max_concurrent, candidates, json_files, skipped, gpu_count,
                    cpu_count, tasks, max_workers, status, future, proc,
                    collected, results, returned, started, report >>
    /\ UNCHANGED << environ, smi, ready >>

\* Lines 250-273: the task list, the empty buckets and the pool size.
\* os.cpu_count() is asked only in CPU mode.
PrepareTasks ==
    /\ pc = "prepare"
    /\ tasks' = PrepareTaskList(json_files, gpu_count)
    /\ results' = EmptyResults
    /\ IF gpu_count > 0
       THEN cpu_count' = None
       ELSE cpu_count' \in {None} \cup (1..MaxCpu)
    /\ max_workers' = MaxWorkers(max_concurrent, gpu_count, cpu_count')
    /\ pc' = "submit"
    /\ UNCHANGED << exit_code, af3_script_exists, input_dir_exists,
                    output_dir_exists, max_concurrent, candidates, json_files,
                    skipped, gpu_count, status, future, proc, collected,
                    returned, started, report,
                    effects >>
    /\ UNCHANGED << environ, smi, ready >>

\* Lines 275-287: ThreadPoolExecutor(max_workers) raises ValueError for
\* max_workers <= 0, which nothing catches; otherwise every task is submitted.
SubmitTasks ==
    /\ pc = "submit"
    /\ IF max_workers <= 0
       THEN /\ pc' = "exit"
            /\ exit_code' = 1
            /\ UNCHANGED << status, future, proc, started >>
       ELSE /\ pc' = "as_completed"
            /\ status' = [i \in Tasks |-> "pending"]
            /\ future' = [i \in Tasks |-> NoFuture]
            /\ proc' = [i \in Tasks |-> NoProc]
            /\ started' = [i \in Tasks |-> 0]
            /\ UNCHANGED exit_code
    /\ UNCHANGED << af3_script_exists, input_dir_exists, output_dir_exists,
                    max_concurrent, candidates, json_files, skipped, gpu_count,
                    cpu_count, tasks, max_workers, collected, results,
                    returned, report,
                    effects >>
    /\ UNCHANGED << environ, smi, ready >>


\* ------------------------------------------------- the pool's worker threads
\* The executor exists and every task is submitted: from the end of the
\* comprehension of lines 276-286 to the end of the with-block.
PoolRunning == pc \in {"as_completed", "collect"}

Busy == { i \in DOMAIN status : status[i] \in {"running", "inflight"} }

\* StartTask with a lock per device: a worker takes the oldest queued item
\* only when no job in progress holds the device the item is assigned.
StartTaskDeviceLock(i) ==
    /\ PoolRunning
    /\ status[i] = "pending"
    /\ \A j \in Tasks : j < i => status[j] # "pending"
    /\ Cardinality(Busy) < max_workers
    /\ \A j \in Busy : tasks[i][2] = None \/ tasks[j][2] # tasks[i][2]
    /\ status' = [status EXCEPT ![i] = "running"]
    /\ started' = [started EXCEPT ![i] = @ + 1]
    /\ UNCHANGED << pc, exit_code, af3_script_exists, input_dir_exists,
                    output_dir_exists, max_concurrent, candidates, json_files,
                    skipped, gpu_count, cpu_count, tasks, max_workers, future,
                    proc, collected, results, returned, report,
                    effects >>
    /\ UNCHANGED << environ, smi, ready >>

\* StartTask with a work queue that is not first-in first-out: a worker
\* takes any queued item.
StartTaskAnyPending(i) ==
    /\ PoolRunning
    /\ status[i] = "pending"
    /\ Cardinality(Busy) < max_workers
    /\ status' = [status EXCEPT ![i] = "running"]
    /\ started' = [started EXCEPT ![i] = @ + 1]
    /\ UNCHANGED << pc, exit_code, af3_script_exists, input_dir_exists,
                    output_dir_exists, max_concurrent, candidates, json_files,
                    skipped, gpu_count, cpu_count, tasks, max_workers, future,
                    proc, collected, results, returned, report,
                    effects >>
    /\ UNCHANGED << environ, smi, ready >>

\* A worker thread takes the oldest queued work item; the pool never has
\* more than max_workers threads.
StartTask(i) ==
    /\ PoolRunning
    /\ status[i] = "pending"
    /\ \A j \in Tasks : j < i => status[j] # "pending"
    /\ Cardinality(Busy) < max_workers
    /\ status' = [status EXCEPT ![i] = "running"]
    /\ started' = [started EXCEPT ![i] = @ + 1]
    /\ UNCHANGED << pc, exit_code, af3_script_exists, input_dir_exists,
                    output_dir_exists, max_concurrent, candidates, json_files,
                    skipped, gpu_count, cpu_count, tasks, max_workers, future,
                    proc, collected, results, returned, report,
                    effects >>
    /\ UNCHANGED << environ, smi, ready >>

\* run_single_prediction, lines 124-158 up to the start of the process:
\* os.makedirs is outside the try block, so its exception leaves the function;
\* an exception of the spawn itself is caught at line 191.
SpawnOutcomes == { "makedirs_raises", "spawn_raises", "spawned" }

SpawnProcess(i) ==
    /\ PoolRunning
    /\ status[i] = "running"
    /\ \E outcome \in SpawnOutcomes :
        LET json_file == tasks[i][1]
            gpu_id    == tasks[i][2]
        IN  CASE outcome = "makedirs_raises" ->
                    /\ future' = [future EXCEPT ![i] = Raised("makedirs")]
                    /\ status' = [status EXCEPT ![i] = "done"]
                    /\ ready' = Append(ready, i)
                    /\ UNCHANGED << proc, effects >>
              [] outcome = "spawn_raises" ->
                    /\ future' = [future EXCEPT ![i] =
                            Resolved(ErrorResult(json_file, gpu_id, "spawn"))]
                    /\ status' = [status EXCEPT ![i] = "done"]
                    /\ ready' = Append(ready, i)
                    /\ effects' = effects \cup {"makedirs"}
                    /\ UNCHANGED proc
              [] outcome = "spawned" ->
                    /\ proc' = [proc EXCEPT ![i] =
                            [state |-> "alive", cmd |-> Cmd(json_file),
                             env |-> TaskEnv(gpu_id)]]
                    /\ status' = [status EXCEPT ![i] = "inflight"]
                    /\ effects' = effects \cup {"makedirs", "spawn"}
                    /\ UNCHANGED << future, ready >>
    /\ UNCHANGED << pc, exit_code, af3_script_exists, input_dir_exists,
                    output_dir_exists, max_concurrent, candidates, json_files,
                    skipped, gpu_count, cpu_count, tasks, max_workers,
                    collected, results, returned, started, report >>
    /\ UNCHANGED << environ, smi >>

\* How a spawned process may end for subprocess.run: it exits after `elapsed`
\* seconds with a return code and a standard-error text, it is still running
\* when the timeout expires, or reading its output raises.
WaitOutcomes ==
    { [kind |-> "exit", returncode |-> c, stderr |-> t, elapsed |-> d] :
        c \in 0..MaxExit, t \in 1..MaxStderr, d \in 1..MaxDuration }
    \cup { [kind |-> "exit", returncode |-> 0, stderr |-> 0, elapsed |-> timeout + 1],
           [kind |-> "raises", returncode |-> 0, stderr |-> 0, elapsed |-> 1] }

\* WaitProcess whose timeout kills every process of the batch that is
\* still alive, not only the one of task i.
WaitProcessKillsAll(i) ==
    /\ PoolRunning
    /\ status[i] = "inflight"
    /\ \E o \in WaitOutcomes :
        LET json_file == tasks[i][1]
            gpu_id    == tasks[i][2]
        IN  CASE o.kind = "raises" ->
                    /\ proc' = [proc EXCEPT ![i] = [@ EXCEPT !.state = "killed_on_error"]]
                    /\ future' = [future EXCEPT ![i] =
                            Resolved(ErrorResult(json_file, gpu_id, "wait"))]
              [] o.kind = "exit" /\ o.elapsed > timeout ->
                    /\ proc' = [j \in DOMAIN proc |->
                            IF proc[j].state = "alive"
                            THEN [proc[j] EXCEPT !.state = "killed_on_timeout"]
                            ELSE proc[j]]
                    /\ future' = [future EXCEPT ![i] =
                            Resolved(TimeoutResult(json_file, gpu_id))]
              [] o.kind = "exit" /\ o.elapsed <= timeout ->
                    /\ proc' = [proc EXCEPT ![i] =
                            [state |-> "exited", cmd |-> proc[i].cmd,
                             env |-> proc[i].env, returncode |-> o.returncode,
                             stderr |-> o.stderr, elapsed |-> o.elapsed]]
                    /\ future' = [future EXCEPT ![i] =
                            Resolved(ExitResult(json_file, gpu_id, o.returncode,
                                                o.stderr, o.elapsed))]
    /\ status' = [status EXCEPT ![i] = "done"]
    /\ ready' = Append(ready, i)
    /\ UNCHANGED << pc, exit_code, af3_script_exists, input_dir_exists,
                    output_dir_exists, max_concurrent, candidates, json_files,
                    skipped, gpu_count, cpu_count, tasks, max_workers,
                    collected, results, returned, started, report,
                    effects >>
    /\ UNCHANGED << environ, smi >>

\* WaitProcess that puts the job back on the queue when its process is
\* killed on the timeout.
WaitProcessRequeues(i) ==
    /\ PoolRunning
    /\ status[i] = "inflight"
    /\ proc' = [proc EXCEPT ![i] = [@ EXCEPT !.state = "killed_on_timeout"]]
    /\ status' = [status EXCEPT ![i] = "pending"]
    /\ UNCHANGED << pc, exit_code, af3_script_exists, input_dir_exists,
                    output_dir_exists, max_concurrent, candidates, json_files,
                    skipped, gpu_count, cpu_count, tasks, max_workers, future,
                    collected, results, returned, started, report, effects >>
    /\ UNCHANGED << environ, smi, ready >>

\* run_single_prediction, lines 152-198: the wait and the classification.
\* subprocess.run kills the child when the timeout expires or when the
\* communication raises.
WaitProcess(i) ==
    /\ PoolRunning
    /\ status[i] = "inflight"
    /\ \E o \in WaitOutcomes :
        LET json_file == tasks[i][1]
            gpu_id    == tasks[i][2]
        IN  CASE o.kind = "raises" ->
                    /\ proc' = [proc EXCEPT ![i] = [@ EXCEPT !.state = "killed_on_error"]]
                    /\ future' = [future EXCEPT ![i] =
                            Resolved(ErrorResult(json_file, gpu_id, "wait"))]
              [] o.kind = "exit" /\ o.elapsed > timeout ->
                    /\ proc' = [proc EXCEPT ![i] = [@ EXCEPT !.state = "killed_on_timeout"]]
                    /\ future' = [future EXCEPT ![i] =
                            Resolved(TimeoutResult(json_file, gpu_id))]
              [] o.kind = "exit" /\ o.elapsed <= timeout ->
                    /\ proc' = [proc EXCEPT ![i] =
                            [state |-> "exited", cmd |-> proc[i].cmd,
                             env |-> proc[i].env, returncode |-> o.returncode,
                             stderr |-> o.stderr, elapsed |-> o.elapsed]]
                    /\ future' = [future EXCEPT ![i] =
                            Resolved(ExitResult(json_file, gpu_id, o.returncode,
                                                o.stderr, o.elapsed))]
    /\ status' = [status EXCEPT ![i] = "done"]
    /\ ready' = Append(ready, i)
    /\ UNCHANGED << pc, exit_code, af3_script_exists, input_dir_exists,
                    output_dir_exists, max_concurrent, candidates, json_files,
                    skipped, gpu_count, cpu_count, tasks, max_workers,
                    collected, results, returned, started, report,
                    effects >>
    /\ UNCHANGED << environ, smi >>

\* ------------------------------------------- run_batch_predictions (290-307)
\* Line 290, the call as_completed(future_to_task).  The futures that are
\* finished by now are yielded first, in the order of a list made from a
\* set: any order.  From here on a future that finishes is yielded after
\* those that finished before it.
AsCompleted ==
    /\ pc = "as_completed"
    /\ pc' = "collect"
    /\ ready' \in Listings(Range(ready))
    /\ UNCHANGED << exit_code, af3_script_exists, input_dir_exists,
                    output_dir_exists, max_concurrent, candidates, json_files,
                    skipped, gpu_count, cpu_count, tasks, max_workers, status,
                    future, proc, collected, results, returned, started,
                    report, effects, environ, smi >>

\* CollectResult for a loop over the futures in the order of submission
\* (for future in future_to_task: future.result()).
CollectResultInSubmissionOrder(i) ==
    /\ pc = "collect"
    /\ status[i] = "done"
    /\ i \notin collected
    /\ \A j \in Tasks : j < i => j \in collected
    /\ ready' = SelectSeqIn(ready, Range(ready) \ {i})
    /\ results' = CollectInto(results, tasks[i][1], future[i])
    /\ collected' = collected \cup {i}
    /\ UNCHANGED << pc, exit_code, af3_script_exists, input_dir_exists,
                    output_dir_exists, max_concurrent, candidates, json_files,
                    skipped, gpu_count, cpu_count, tasks, max_workers, status,
                    future, proc, returned, started, report,
                    effects >>
    /\ UNCHANGED << environ, smi >>

\* CollectResult without the except clause of line 303: an exception of
\* future.result() leaves the loop and ends the run.
CollectResultRaises(i) ==
    /\ pc = "collect"
    /\ status[i] = "done"
    /\ i \notin collected
    /\ ready # << >> /\ Head(ready) = i
    /\ ready' = Tail(ready)
    /\ IF future[i].kind = "exception"
       THEN /\ pc' = "exit"
            /\ exit_code' = 1
            /\ UNCHANGED << results, collected >>
       ELSE /\ results' = CollectInto(results, tasks[i][1], future[i])
            /\ collected' = collected \cup {i}
            /\ UNCHANGED << pc, exit_code >>
    /\ UNCHANGED << af3_script_exists, input_dir_exists,
                    output_dir_exists, max_concurrent, candidates, json_files,
                    skipped, gpu_count, cpu_count, tasks, max_workers, status,
                    future, proc, returned, started, report,
                    effects >>
    /\ UNCHANGED << environ, smi >>

\* One turn of the as_completed loop: the main thread takes the next
\* finished future the iterator yields.
CollectResult(i) ==
    /\ pc = "collect"
    /\ status[i] = "done"
    /\ i \notin collected
    /\ ready # << >> /\ Head(ready) = i
    /\ ready' = Tail(ready)
    /\ results' = CollectInto(results, tasks[i][1], future[i])
    /\ collected' = collected \cup {i}
    /\ UNCHANGED << pc, exit_code, af3_script_exists, input_dir_exists,
                    output_dir_exists, max_concurrent, candidates, json_files,
                    skipped, gpu_count, cpu_count, tasks, max_workers, status,
                    future, proc, returned, started, report,
                    effects >>
    /\ UNCHANGED << environ, smi >>

\* ReturnResults for a loop that is left after the first outcome and a
\* pool shut down without waiting for its workers.
ReturnResultsAfterFirst ==
    /\ pc = "collect"
    /\ collected # {}
    /\ pc' = "report"
    /\ returned' = TRUE
    /\ UNCHANGED << exit_code, af3_script_exists, input_dir_exists,
                    output_dir_exists, max_concurrent, candidates, json_files,
                    skipped, gpu_count, cpu_count, tasks, max_workers, status,
                    future, proc, collected, results, started, report,
                    effects >>
    /\ UNCHANGED << environ, smi, ready >>

\* The loop ends when every future was yielded; the with-block shuts the
\* pool down and line 307 returns the buckets.
ReturnResults ==
    /\ pc = "collect"
    /\ collected = Tasks
    /\ pc' = "report"
    /\ returned' = TRUE
    /\ UNCHANGED << exit_code, af3_script_exists, input_dir_exists,
                    output_dir_exists, max_concurrent, candidates, json_files,
                    skipped, gpu_count, cpu_count, tasks, max_workers, status,
                    future, proc, collected, results, started, report,
                    effects >>
    /\ UNCHANGED << environ, smi, ready >>

\* GenerateReport with the rate of line 333 computed as total over success:
\* it divides by the number of successes.
GenerateReportDividesBySuccess ==
    /\ pc = "report"
    /\ IF ~output_dir_exists
       THEN pc' = "exit" /\ exit_code' = 1
            /\ UNCHANGED << report, effects >>
       ELSE IF Len(results.success) = 0
       THEN pc' = "exit" /\ exit_code' = 1 /\ report' = PartialReport
            /\ effects' = effects \cup {"write_report"}
       ELSE pc' = "print" /\ report' = ReportText(results)
            /\ effects' = effects \cup {"write_report"}
            /\ UNCHANGED exit_code
    /\ UNCHANGED << af3_script_exists, input_dir_exists, output_dir_exists,
                    max_concurrent, candidates, json_files, skipped, gpu_count,
                    cpu_count, tasks, max_workers, status, future, proc,
                    collected, results, returned, started >>
    /\ UNCHANGED << environ, smi, ready >>

\* ---------------------------------------------------------- main (433-441)
\* generate_summary_report: open() needs the output directory; line 333
\* divides by total_tasks.  An uncaught exception ends the interpreter with
\* status 1.
GenerateReport ==
    /\ pc = "report"
    /\ LET total_tasks == Len(results.success) + Len(results.failed)
                          + Len(results.errors)
       IN  IF ~output_dir_exists
           THEN pc' = "exit" /\ exit_code' = 1
                /\ UNCHANGED << report, effects >>
           ELSE IF total_tasks = 0
           THEN pc' = "exit" /\ exit_code' = 1 /\ report' = PartialReport
                /\ effects' = effects \cup {"write_report"}
           ELSE pc' = "print" /\ report' = ReportText(results)
                /\ effects' = effects \cup {"write_report"}
                /\ UNCHANGED exit_code
    /\ UNCHANGED << af3_script_exists, input_dir_exists, output_dir_exists,
                    max_concurrent, candidates, json_files, skipped, gpu_count,
                    cpu_count, tasks, max_workers, status, future, proc,
                    collected, results, returned, started >>
    /\ UNCHANGED << environ, smi, ready >>

\* Lines 436-441: the console summary divides by total as well; falling off
\* the end of main is exit status 0.
PrintSummary ==
    /\ pc = "print"
    /\ LET total == Len(results.success) + Len(results.failed)
                    + Len(results.errors)
       IN  exit_code' = IF total = 0 THEN 1 ELSE 0
    /\ pc' = "exit"
    /\ UNCHANGED << af3_script_exists, input_dir_exists, output_dir_exists,
                    max_concurrent, candidates, json_files, skipped, gpu_count,
                    cpu_count, tasks, max_workers, status, future, proc,
                    collected, results, returned, started, report,
                    effects >>
    /\ UNCHANGED << environ, smi, ready >>

Next ==
    \/ CheckScript
    \/ CheckInputDir
    \/ ScanInputDir
    \/ RunNvidiaSmi
    \/ DetectGpu
    \/ MakeOutputDir
    \/ PrepareTasks
    \/ SubmitTasks
    \/ \E i \in Tasks : StartTask(i)
    \/ \E i \in Tasks : SpawnProcess(i)
    \/ \E i \in Tasks : WaitProcess(i)
    \/ AsCompleted
    \/ \E i \in Tasks : CollectResult(i)
    \/ ReturnResults
    \/ GenerateReport
    \/ PrintSummary

Spec == Init /\ [][Next]_vars

\* ------------------------------- generate_summary_report called once more
\* WriteReport with run_summary.txt opened in append mode: what was in the
\* file stays, the new text follows it.
WriteReportAppends(file, res) ==
    IF file.state = "absent" THEN ReportText(res)
    ELSE [state |-> "appended", first |-> file, second |-> ReportText(res)]

\* What lines 319-356 leave in run_summary.txt when no statement raises,
\* given what the file held before: open(report_file, 'w') truncates it.
\* The text is taken without the time of line 323.
WriteReport(file, res) == ReportText(res)

\* generate_summary_report(results, output_dir) applied again to the buckets
\* it was applied to, after the call of line 433 has returned.
GenerateReportAgain ==
    /\ pc = "print"
    /\ report' = WriteReport(report, results)
    /\ effects' = effects \cup {"rewrite_report"}
    /\ UNCHANGED << pc, exit_code, af3_script_exists, input_dir_exists,
                    output_dir_exists, max_concurrent, candidates, json_files,
                    skipped, gpu_count, cpu_count, tasks, max_workers, status,
                    future, proc, collected, results, returned, started,
                    environ, smi, ready >>

NextReportAgain == Next \/ GenerateReportAgain

\* The runner with a caller that may generate the report more than once.
SpecReportAgain == Init /\ [][NextReportAgain]_vars

\* The steps of the main thread, and the steps a pool worker takes for task i.
MainThread ==
    \/ CheckScript \/ CheckInputDir \/ ScanInputDir \/ RunNvidiaSmi
    \/ DetectGpu \/ MakeOutputDir \/ PrepareTasks \/ SubmitTasks
    \/ AsCompleted
    \/ \E i \in Tasks : CollectResult(i)
    \/ ReturnResults \/ GenerateReport \/ PrintSummary

Worker(i) ==
    /\ i \in Tasks
    /\ StartTask(i) \/ SpawnProcess(i) \/ WaitProcess(i)

\* The operating system schedules every thread that can run: the main thread
\* and each pool worker keep taking the steps they can take.  A wait on the
\* external process ends by itself or by the timeout of line 157.
Fairness ==
    /\ WF_vars(MainThread)
    /\ \A i \in 1..MaxFiles : WF_vars(Worker(i))

\* The runs started without the device variable in the runner's environment.
\* The inherited value is only ever copied into the environments of the
\* processes; no guard reads it, so the scheduling of the other runs is the same.
InitFair ==
    /\ Init
    /\ environ.CUDA_VISIBLE_DEVICES = << "unset" >>

FairSpec == InitFair /\ [][Next]_vars /\ Fairness


\* ================================================================= claims
\* Vocabulary shared by the properties below.

\* The number of tasks handed to the pool.
Dispatched == Len(status)

\* The records of all three buckets, in bucket order.
AllRecords == results.success \o results.failed \o results.errors

\* How many records of the sequence s satisfy Test.
CountIn(s, Test(_)) == Cardinality({ k \in 1..Len(s) : Test(s[k]) })

HasStatus(r, st) == "status" \in DOMAIN r /\ r.status = st

\* The four outcome counts, read off the collected records: a record of the
\* 'errors' bucket has no status field and stands for an Error.
SucceededCount == CountIn(AllRecords, LAMBDA r : HasStatus(r, "success"))
FailedCount    == CountIn(AllRecords, LAMBDA r : HasStatus(r, "failed"))
TimedOutCount  == CountIn(AllRecords, LAMBDA r : HasStatus(r, "timeout"))
ErrorCount     == CountIn(AllRecords,
                      LAMBDA r : HasStatus(r, "error") \/ "status" \notin DOMAIN r)

\* The identifier of task i.
Sample(i) == base_name(tasks[i][1])

\* The state of job i in the words of the job state machine.
JobStateOf(st, fut) ==
    CASE st = "pending" -> "Pending"
      [] st \in {"running", "inflight"} -> "Running"
      [] st = "done" /\ fut.kind = "exception" -> "Error"
      [] st = "done" /\ fut.kind = "result" ->
            CASE fut.result.status = "success" -> "Succeeded"
              [] fut.result.status = "failed" -> "Failed"
              [] fut.result.status = "timeout" -> "TimedOut"
              [] fut.result.status = "error" -> "Error"

Terminal == {"Succeeded", "Failed", "TimedOut", "Error"}

\* C1: once run_batch_predictions has returned, the buckets account for every
\* dispatched job exactly once: the succeeded, failed, timed-out and error
\* counts add up to the number of tasks dispatched, every task's identifier
\* occurs in exactly one record, and the dispatched tasks plus the
\* validation-rejected candidates are the .json candidates of the directory.
C1_OutcomesAccountForEveryJob ==
    returned =>
        /\ SucceededCount + FailedCount + TimedOutCount + ErrorCount = Dispatched
        /\ Len(AllRecords) = Dispatched
        /\ \A i \in 1..Dispatched :
              CountIn(AllRecords, LAMBDA r : r.sample = Sample(i)) = 1
        /\ Dispatched + Cardinality(skipped) = Cardinality(candidates)

\* A run that returned with a success, a failure, a timeout, an error and a
\* rejected descriptor.
C1_Witness ==
    /\ returned
    /\ Dispatched >= 2
    /\ SucceededCount >= 1
    /\ TimedOutCount + FailedCount + ErrorCount >= 1
    /\ skipped # {}


\* The 0-based position of task i's descriptor among the validated
\* descriptors sorted by file name.
SortedPosition(i) ==
    Cardinality({ j \in Tasks : Sample(j) < Sample(i) })

ConcurrencyBound ==
    IF gpu_count > 0 THEN Min(max_concurrent, gpu_count)
    ELSE Min(max_concurrent, IF cpu_count = None THEN DefaultCpu ELSE cpu_count)

InFlight == { i \in DOMAIN proc : proc[i].state = "alive" }

\* C3: the number of jobs that are Running at the same time, and so the
\* number of external processes in flight, never exceeds the concurrency
\* bound.
C3_ConcurrencyWithinBound ==
    /\ Cardinality(Busy) <= ConcurrencyBound
    /\ Cardinality(InFlight) <= ConcurrencyBound

\* The bound is reached with two processes in flight while a job waits.
C3_Witness ==
    /\ Cardinality(InFlight) = 2
    /\ ConcurrencyBound = 2
    /\ \E i \in DOMAIN status : status[i] = "pending"

\* One step of a job along Pending -> Running -> terminal.
JobStep(from, to) ==
    \/ from = to
    \/ from = "Pending" /\ to = "Running"
    \/ from = "Running" /\ to \in Terminal

\* C4: a dispatched job moves only along Pending -> Running -> one of
\* Succeeded, Failed, TimedOut, Error; a worker takes it at most once; once
\* terminal its outcome never changes; and it is collected into exactly one
\* record.
C4_JobStateMonotonic ==
    /\ [](\A i \in DOMAIN status :
            /\ started[i] <= 1
            /\ (status[i] = "pending") = (started[i] = 0)
            /\ i \in collected =>
                  /\ JobStateOf(status[i], future[i]) \in Terminal
                  /\ CountIn(AllRecords, LAMBDA r : r.sample = Sample(i)) = 1)
    /\ [][\A i \in DOMAIN status :
            /\ i \in DOMAIN status'
            /\ JobStep(JobStateOf(status[i], future[i]),
                       JobStateOf(status'[i], future'[i]))
            /\ status[i] = "done" => future'[i] = future[i]
            /\ i \in collected => i \in collected']_vars

\* Every job of a three-job run is terminal after running, one of each kind
\* but Succeeded.
C4_Witness ==
    /\ Dispatched = 3
    /\ \A i \in DOMAIN status : status[i] = "done" /\ started[i] = 1
    /\ { JobStateOf(status[i], future[i]) : i \in DOMAIN status }
          = {"Failed", "TimedOut", "Error"}


\* The report lines of section sec that name the sample f.
ReportLines(sec, f) == { k \in 1..Len(sec) : sec[k][1] = f }

\* C5 as stated: a job whose process ran past the timeout was killed, is
\* classified TimedOut, and is kept apart from the Failed jobs: it is no
\* record of the 'failed' bucket and no line of the report's Failed section.
C5_TimedOutKeptApartFromFailed ==
    \A i \in DOMAIN proc :
        proc[i].state = "killed_on_timeout" /\ status[i] = "done" =>
            /\ JobStateOf(status[i], future[i]) = "TimedOut"
            /\ CountIn(results.failed, LAMBDA r : r.sample = Sample(i)) = 0
            /\ report.state = "complete" =>
                  ReportLines(report.failed_section, Sample(i)) = {}

\* C6: a job whose process exited by itself is Succeeded exactly if the exit
\* code is 0, and its duration is recorded; with a nonzero code it is Failed,
\* its record holds the duration and the process's standard-error text, it is
\* collected into the 'failed' bucket and the report lists it under Failed
\* with that text.
C6_ExitCodeDecidesOutcome ==
    \A i \in DOMAIN proc :
        proc[i].state = "exited" =>
            /\ status[i] = "done"
            /\ future[i].kind = "result"
            /\ (future[i].result.status = "success") = (proc[i].returncode = 0)
            /\ future[i].result.duration = proc[i].elapsed
            /\ proc[i].returncode # 0 =>
                  /\ future[i].result.status = "failed"
                  /\ future[i].result.error = << "stderr", proc[i].stderr >>
            /\ i \in collected =>
                  IF proc[i].returncode = 0
                  THEN /\ \E k \in 1..Len(results.success) :
                              results.success[k] = future[i].result
                       /\ CountIn(results.failed,
                                  LAMBDA r : r.sample = Sample(i)) = 0
                  ELSE /\ \E k \in 1..Len(results.failed) :
                              results.failed[k] = future[i].result
                       /\ CountIn(results.success,
                                  LAMBDA r : r.sample = Sample(i)) = 0
            /\ report.state = "complete" /\ proc[i].returncode # 0 =>
                  \E k \in 1..Len(report.failed_section) :
                      report.failed_section[k] =
                          << Sample(i), gpu_info(tasks[i][2]),
                             << "stderr", proc[i].stderr >> >>

\* A report that lists a job which exited with code 2 next to one that
\* exited with code 0.
C6_Witness ==
    /\ report.state = "complete"
    /\ \E i, j \in DOMAIN proc :
          /\ proc[i].state = "exited" /\ proc[i].returncode = 2
          /\ proc[j].state = "exited" /\ proc[j].returncode = 0

\* C7 as stated: a job whose spawn or wait raised is classified Error with
\* the exception text, and is accounted for under Error: its record is in the
\* 'errors' bucket and not in the 'failed' bucket, and the report lists it in
\* the Error section and not in the Failed section.
C7_ErrorKeptApartFromFailed ==
    \A i \in collected :
        future[i].kind = "result" /\ future[i].result.status = "error" =>
            /\ JobStateOf(status[i], future[i]) = "Error"
            /\ future[i].result.error[1] = "exception"
            /\ CountIn(results.failed, LAMBDA r : r.sample = Sample(i)) = 0
            /\ CountIn(results.errors, LAMBDA r : r.sample = Sample(i)) = 1
            /\ report.state = "complete" =>
                  /\ ReportLines(report.failed_section, Sample(i)) = {}
                  /\ ReportLines(report.error_section, Sample(i)) # {}

\* C8: a descriptor rejected by validation is no task, no process is spawned
\* for it, and its identifier is in no bucket and in no section of the report.
C8_RejectedNeverEnter ==
    \A f \in skipped :
        /\ \A i \in Tasks : Sample(i) # f
        /\ \A i \in DOMAIN proc :
              proc[i] # NoProc => base_name(proc[i].cmd.output_dir) # f
        /\ CountIn(AllRecords, LAMBDA r : r.sample = f) = 0
        /\ report.state = "complete" =>
              /\ ReportLines(report.success_section, f) = {}
              /\ ReportLines(report.failed_section, f) = {}
              /\ ReportLines(report.error_section, f) = {}

\* A finished run over a directory with rejected and accepted descriptors.
C8_Witness ==
    /\ report.state = "complete"
    /\ skipped # {}
    /\ Dispatched >= 2
    /\ \E i \in DOMAIN proc : proc[i] # NoProc

\* C9 as stated: when the input directory exists and no candidate passes
\* validation, the run ends with a report written and exit code 0.
C9_NoValidJobsExitsZero ==
    ( /\ pc = "exit"
      /\ af3_script_exists
      /\ max_concurrent >= 1
      /\ "listdir" \in effects
      /\ json_files = << >> )
    => /\ exit_code = 0
       /\ report.state = "complete"

\* C10: with the executable missing the run ends with exit code 1 and nothing
\* else has happened: no listing or validation, no device query, no
\* directory created, no task, no process, no report.
C10_MissingScriptAbortsFirst ==
    ~af3_script_exists =>
        /\ pc \in {"main", "exit"}
        /\ pc = "exit" => exit_code = 1
        /\ effects = {}
        /\ candidates = {} /\ json_files = << >> /\ skipped = {}
        /\ tasks = << >> /\ Dispatched = 0 /\ proc = << >>
        /\ ~returned
        /\ report = NoReport

\* The run has ended on the missing executable although the input directory
\* is there.
C10_Witness ==
    /\ ~af3_script_exists
    /\ input_dir_exists
    /\ pc = "exit"
    /\ exit_code = 1


\* C11 as stated: with the executable present and the input directory
\* missing, the run ends with exit code 1, no job was dispatched and no
\* report file was written.
C11_MissingInputDirNoReport ==
    ( /\ pc = "exit"
      /\ af3_script_exists
      /\ ~input_dir_exists )
    => /\ exit_code = 1
       /\ Dispatched = 0
       /\ "spawn" \notin effects
       /\ report = NoReport

\* C12: once at least one task was submitted, the run can only end with the
\* complete report written and exit code 0, whatever the outcomes of the
\* jobs; when the report is generated the directory is there and the total
\* is positive, so no statement of the generator raises.
C12_ReportAndExitZeroAfterDispatch ==
    Dispatched >= 1 =>
        /\ pc = "report" =>
              /\ output_dir_exists
              /\ Len(AllRecords) = Dispatched
        /\ pc \in {"print", "exit"} =>
              /\ report.state = "complete"
              /\ report.total_tasks = Dispatched
              /\ report.success_count = SucceededCount
        /\ pc = "exit" => exit_code = 0

\* A run of three jobs none of which succeeded has ended.
C12_Witness ==
    /\ pc = "exit"
    /\ Dispatched = 3
    /\ SucceededCount = 0
    /\ Len(results.errors) >= 1
    /\ TimedOutCount >= 1
    /\ exit_code = 0

\* Every dispatched job is terminal, collected and recorded in a bucket.
AllJobsCollected ==
    \A i \in DOMAIN status :
        /\ i \in collected
        /\ JobStateOf(status[i], future[i]) \in Terminal
        /\ \E k \in 1..Len(AllRecords) : AllRecords[k].sample = Sample(i)

\* C13: a job that failed, timed out or raised never aborts the batch: the
\* main thread leaves the collecting loop only when every dispatched job is
\* terminal and collected, and under fair scheduling every dispatched job
\* eventually is.
C13_EveryDispatchedJobCollected ==
    /\ []( (Dispatched >= 1 /\ ~PoolRunning) => AllJobsCollected )
    /\ (Dispatched >= 1) ~> AllJobsCollected

\* The last of three jobs is collected after an earlier one failed, one
\* timed out and one raised.
C13_Witness ==
    /\ Dispatched = 3
    /\ collected = {1, 2, 3}
    /\ \E i, j \in 1..2 :
          /\ i # j
          /\ JobStateOf(status[i], future[i]) = "Failed"
          /\ JobStateOf(status[j], future[j]) \in {"TimedOut", "Error"}
    /\ results.success # << >>
    /\ results.success[Len(results.success)].sample = Sample(3)

\* The process of job i is killed on its timeout in this step.
TimesOut(i) ==
    /\ proc[i].state = "alive"
    /\ proc'[i].state = "killed_on_timeout"

\* C14: the step in which job i's process is killed on the timeout makes
\* job i TimedOut and frees its pool slot, and leaves the process, the
\* status and the future of every other job as they were; a job whose
\* process was killed holds no slot, so it keeps no Pending job from
\* starting.
C14_TimeoutTouchesOnlyItsJob ==
    /\ [](\A i \in DOMAIN proc :
            proc[i].state = "killed_on_timeout" =>
                /\ i \notin Busy
                /\ JobStateOf(status[i], future[i]) = "TimedOut")
    /\ [][\A i \in DOMAIN proc :
            TimesOut(i) =>
                /\ Cardinality(Busy') = Cardinality(Busy) - 1
                /\ \A j \in DOMAIN proc \ {i} :
                      /\ proc'[j] = proc[j]
                      /\ status'[j] = status[j]
                      /\ future'[j] = future[j]
                      /\ started'[j] = started[j]]_vars

\* Job 1 timed out while job 2 was Running and job 3 Pending; job 2's
\* process is still alive and job 3 has started since.
C14_Witness ==
    /\ Dispatched = 3
    /\ proc[1].state = "killed_on_timeout"
    /\ proc[2].state = "alive"
    /\ status[3] = "inflight"
    /\ proc[3].state = "alive"

\* The jobs for which an external process was started.
Spawned == { i \in DOMAIN proc : proc[i].state # "none" }

\* C15: the environment handed to a job's process is a snapshot of the
\* runner's environment in which the device variable holds the job's own
\* device, or is absent when the job has none (CPU mode, no device seen);
\* the runner's own environment is never changed.
C15_OwnEnvironmentSnapshot ==
    /\ [](\A i \in Spawned :
            /\ proc[i].env.CUDA_VISIBLE_DEVICES =
                  ( IF tasks[i][2] # None THEN << "set", tasks[i][2] >>
                    ELSE << "unset" >> )
            /\ proc[i].env.PATH = environ.PATH
            /\ (tasks[i][2] = None) <=> (gpu_count = 0))
    /\ [][environ' = environ]_vars

\* Two processes are alive on devices 0 and 1, each with its own device in
\* its environment, while the runner still has the value it inherited.
C15_Witness ==
    /\ environ.CUDA_VISIBLE_DEVICES = << "set", MaxGpu >>
    /\ \E i, j \in Spawned :
          /\ proc[i].state = "alive" /\ proc[j].state = "alive"
          /\ proc[i].env.CUDA_VISIBLE_DEVICES = << "set", 0 >>
          /\ proc[j].env.CUDA_VISIBLE_DEVICES = << "set", 1 >>

\* C17 as stated: whatever the nvidia-smi call did, the detector returns
\* without ending the run; it returns the number of devices the call listed
\* when the call succeeded and listed at least one, and 0 when the program
\* is absent, the call failed, or it succeeded and listed no device.
C17_DetectorReturnsDeviceCount ==
    [][pc = "count_gpus" =>
          /\ pc' = "makedirs"
          /\ exit_code' = None
          /\ gpu_count' = ( IF smi.kind = "ok" THEN smi.lines ELSE 0 )]_vars

\* The descriptors a process started with --input_dir dir is handed: the
\* .json entries of that directory.
HandedDescriptors(dir) == IF dir = "input_dir" THEN candidates ELSE {}

\* C16 as stated: the process of every job is given the job's own output
\* subdirectory, named after the job, and exactly the job's own descriptor
\* as input, so that no descriptor is handed to two processes of the run.
C16_OwnDescriptorAndOutputDir ==
    \A i \in Spawned :
        /\ proc[i].cmd.output_dir = << "output_dir", Sample(i) >>
        /\ HandedDescriptors(proc[i].cmd.input_dir) = { Sample(i) }
        /\ \A j \in Spawned \ {i} :
              HandedDescriptors(proc[i].cmd.input_dir)
                  \cap HandedDescriptors(proc[j].cmd.input_dir) = {}

\* C18: generating the report again from the same buckets leaves the
\* buckets as they were and the file with the text it had (the time of
\* writing apart): the second call replaces the file, it adds nothing to it.
C18_ReportGeneratorIdempotent ==
    /\ [][(pc = "print" /\ pc' = "print") =>
              (results' = results /\ report' = report)]_vars
    /\ []("rewrite_report" \in effects =>
              /\ report = ReportText(results)
              /\ report.total_tasks = Dispatched)

\* The report of a run with a success, a failure and an error was
\* generated a second time.
C18_Witness ==
    /\ "rewrite_report" \in effects
    /\ report.state = "complete"
    /\ report.success_count >= 1
    /\ Len(report.failed_section) >= 1
    /\ Len(report.error_section) >= 1

\* Job i is the oldest job still queued.
OldestPending(i) ==
    /\ status[i] = "pending"
    /\ \A j \in DOMAIN status : j < i => status[j] # "pending"

\* C19: the device of a job is a label only: when the oldest queued job is
\* assigned a device that a job in progress is using, a worker with a free
\* slot may take it all the same; nothing waits for the device.
C19_DeviceNeverBlocksStart ==
    \A i \in DOMAIN status :
        ( /\ PoolRunning
          /\ OldestPending(i)
          /\ Cardinality(Busy) < max_workers
          /\ tasks[i][2] # None
          /\ \E j \in Busy : tasks[j][2] = tasks[i][2] )
        => ENABLED StartTask(i)

\* Two jobs assigned the same device have their processes alive at the
\* same time.
C19_Witness ==
    \E i, j \in InFlight :
        /\ i # j
        /\ tasks[i][2] # None
        /\ tasks[i][2] = tasks[j][2]
        /\ proc[i].env.CUDA_VISIBLE_DEVICES = proc[j].env.CUDA_VISIBLE_DEVICES

\* C20: jobs leave the queue in the order they were submitted: no job is in
\* progress or finished while a job submitted before it is still Pending;
\* and whenever a job is Pending and the pool has a free slot, a worker can
\* take a job at once.
C20_FifoAdmission ==
    /\ \A i, j \in DOMAIN status :
          (i < j /\ status[i] = "pending") => status[j] = "pending"
    /\ ( /\ PoolRunning
         /\ \E i \in DOMAIN status : status[i] = "pending"
         /\ Cardinality(Busy) < max_workers )
       => \E i \in DOMAIN status : OldestPending(i) /\ ENABLED StartTask(i)

\* Jobs 1 and 2 were taken in order; job 1 is finished, job 2 in progress,
\* and job 3 is Pending with a slot free for it.
C20_Witness ==
    /\ Dispatched = 3
    /\ max_workers = 2
    /\ status[1] = "done"
    /\ status[2] \in {"running", "inflight"}
    /\ status[3] = "pending"

\* Job i finishes in this step.
Finishes(i) == status[i] # "done" /\ status'[i] = "done"

\* This step appends the outcome of job i, and nothing else, to a bucket;
\* it is a step of the collecting loop and of no worker.
AppendsOutcomeOf(i) ==
    /\ pc = "collect"
    /\ status[i] = "done"
    /\ i \notin collected /\ collected' = collected \cup {i}
    /\ Len(AllRecords') = Len(AllRecords) + 1
    /\ \E b \in {"success", "failed", "errors"} :
          /\ Len(results'[b]) = Len(results[b]) + 1
          /\ results'[b] = Append(results[b], results'[b][Len(results'[b])])
          /\ results'[b][Len(results'[b])].sample = Sample(i)
          /\ \A c \in {"success", "failed", "errors"} \ {b} :
                results'[c] = results[c]
    /\ status' = status /\ future' = future /\ proc' = proc

\* No outcome is lost or duplicated: the buckets hold one record for every
\* job collected so far and nothing else, and the finished jobs that are
\* not collected are the ones waiting to be yielded.
OneRecordPerCollectedJob ==
    /\ Len(AllRecords) = Cardinality(collected)
    /\ \A i \in collected :
          Cardinality({ k \in 1..Len(AllRecords) : AllRecords[k].sample = Sample(i) }) = 1
    /\ Range(ready) = { i \in DOMAIN status : status[i] = "done" } \ collected
    /\ Len(ready) = Cardinality(Range(ready))

\* C21 as stated: outcomes are appended in the order in which the jobs
\* completed: the futures are yielded in the order they finished, also
\* those that had finished when as_completed was called, and each append
\* is made by the collecting loop for the job that finished first among
\* those not yet collected.
C21_AppendedInCompletionOrder ==
    [][ /\ (pc = "as_completed" /\ pc' = "collect") => ready' = ready
        /\ results' # results => AppendsOutcomeOf(Head(ready)) ]_vars

\* C21, corrected: outcomes are appended in the order in which as_completed
\* yields the futures.  The futures already finished when it is called are
\* yielded first, in any order; a future that finishes later is yielded
\* after every future that finished before it.  The order is not the order
\* of submission.  Every append is a step of the collecting loop alone, no
\* step of a worker changes the buckets, and no outcome is lost or
\* duplicated.
C21_AppendedInYieldOrder ==
    /\ []OneRecordPerCollectedJob
    /\ [][ /\ (pc = "as_completed" /\ pc' = "collect") =>
                 /\ Range(ready') = Range(ready)
                 /\ Len(ready') = Len(ready)
           /\ results' # results =>
                 /\ AppendsOutcomeOf(Head(ready))
                 /\ ready' = Tail(ready)
           /\ \A i \in DOMAIN status :
                 Finishes(i) => (ready' = Append(ready, i) /\ results' = results)
           /\ (status' # status \/ future' # future \/ proc' # proc) =>
                 results' = results ]_vars

\* The outcome of the second job submitted stands before the outcome of
\* the first in the same bucket, and the third job is still in progress.
C21_Witness ==
    /\ Dispatched = 3
    /\ collected = {1, 2}
    /\ status[3] = "inflight"
    /\ \E b \in {"success", "failed"} :
          /\ Len(results[b]) = 2
          /\ results[b][1].sample = Sample(2)
          /\ results[b][2].sample = Sample(1)

\* The jobs whose record stands in bucket b.
JobsIn(b) ==
    { i \in DOMAIN status :
        \E k \in 1..Len(results[b]) : results[b][k].sample = Sample(i) }

\* C22 as stated: resolving a future never raises, so after every run the
\* 'errors' bucket is empty and every job that did not succeed has its
\* record in the 'failed' bucket.
C22_ErrorsBucketEmpty ==
    /\ \A i \in DOMAIN future : future[i].kind # "exception"
    /\ results.errors = << >>
    /\ returned =>
          \A i \in DOMAIN status :
              JobStateOf(status[i], future[i]) # "Succeeded" => i \in JobsIn("failed")

\* C22, corrected: an exception of the spawn or of the wait is returned as
\* a record, so a future raises only when creating the job's output
\* directory failed, before any process was started; the 'errors' bucket
\* holds exactly the collected jobs of that kind, and every record that
\* was returned and is no success (failed, timeout, error) is in 'failed'.
C22_ErrorsBucketHoldsRaisedFutures ==
    /\ JobsIn("errors") = { i \in collected : future[i].kind = "exception" }
    /\ \A i \in DOMAIN future :
          future[i].kind = "exception" =>
              /\ future[i].error = << "exception", "makedirs" >>
              /\ proc[i] = NoProc
    /\ \A i \in Spawned :
          status[i] = "done" => future[i].kind = "result"
    /\ JobsIn("failed") =
          { i \in collected : /\ future[i].kind = "result"
                              /\ future[i].result.status
                                    \in {"failed", "timeout", "error"} }
    /\ JobsIn("success") =
          { i \in collected : /\ future[i].kind = "result"
                              /\ future[i].result.status = "success" }

\* A run has returned with one job in 'errors' whose directory could not
\* be created, and with a timed-out job and a job whose wait raised both
\* in 'failed'.
C22_Witness ==
    /\ returned
    /\ Len(results.errors) = 1
    /\ results.errors[1].error = << "exception", "makedirs" >>
    /\ Len(results.failed) = 2
    /\ \E k, l \in 1..2 :
          /\ results.failed[k].status = "timeout"
          /\ results.failed[l].status = "error"

\* No dispatched job is Pending or Running, and every one is collected.
NoJobOutstanding ==
    /\ \A i \in DOMAIN status :
          /\ JobStateOf(status[i], future[i]) \notin {"Pending", "Running"}
          /\ i \in collected
    /\ InFlight = {}
    /\ ready = << >>

\* C23: run_batch_predictions returns, and the report is started and
\* written, only when no dispatched job is Pending or Running and every
\* one has been collected; nothing about a job changes afterwards.
C23_ReportOnlyAfterAllCollected ==
    /\ []( ( \/ returned
             \/ pc \in {"report", "print"}
             \/ report # NoReport
             \/ "write_report" \in effects ) => NoJobOutstanding )
    /\ [][ (returned' /\ ~returned) =>
              (NoJobOutstanding /\ (Dispatched >= 1 => pc = "collect")) ]_vars
    /\ [][ report' # report => (returned /\ NoJobOutstanding /\ results' = results) ]_vars
    /\ [][ returned =>
              (status' = status /\ future' = future /\ proc' = proc) ]_vars

\* The complete report of three jobs is written: two workers ran them, and
\* the last job to be collected was not the last one submitted.
C23_Witness ==
    /\ pc = "print"
    /\ report.state = "complete"
    /\ report.total_tasks = 3
    /\ max_workers = 2
    /\ collected = {1, 2, 3}
    /\ \A i \in DOMAIN status : status[i] = "done"
    /\ report.success_count = 2
    /\ results.success[2].sample = Sample(1)

====
